---- MODULE Spec2Model ----
(***************************************************************************)
(* Model of the monitoring engine of monitor_alert.go: one scheduler       *)
(* goroutine per configured service (startMonitoring), the retrying probe  *)
(* (checkService), the health record update with alert deduplication       *)
(* (updateServiceStatus), the dispatch to Slack and PagerDuty (sendAlerts, *)
(* sendRecoveryAlert) and the /health reader (startAPIServer), all sharing *)
(* statusMutex.                                                            *)
(*                                                                         *)
(* Time is a discrete clock.  Steps that only compute are instantaneous:   *)
(* the clock advances only when every goroutine is blocked on something    *)
(* that takes time (an HTTP exchange, time.Sleep, the ticker channel, the  *)
(* mutex).  HTTP exchanges take a nondeterministic number of ticks.        *)
(***************************************************************************)
EXTENDS Integers, Sequences, FiniteSets, TLC

(* ------------------------------ bounds -------------------------------- *)
MaxTime     == 2   \* the clock stops advancing here
MaxRetry    == 2   \* largest retry_attempts of a configuration
MaxInterval == 2   \* largest check_interval of a configuration (seconds)
MaxDelay    == 1   \* largest retry_delay of a configuration (seconds)
MaxReqTime  == 1   \* longest probe request (the client timeout), in ticks

(* --------------------------- configuration ---------------------------- *)
Names       == {"api", "web"}      \* service names (unique keys of the map)
StatusCodes == {200, 500}          \* response status codes a target returns
Queries     == {"q1", "q2"}        \* /health queries served at once
NoOne       == "none"              \* nobody holds the write lock
Nil         == -1                  \* a nil *time.Time, an unset time

\* ServiceConfig (the fields the engine reads). ValidRequest stands for
\* a method and URL that http.NewRequest accepts.
ServiceConfigs ==
    [ ExpectedStatus  : {200},
      RetryAttempts   : 0..MaxRetry,
      RetryDelay      : 0..MaxDelay,
      CheckInterval   : 0..MaxInterval,
      CriticalService : BOOLEAN,
      ValidRequest    : BOOLEAN ]

VARIABLES
    config,         \* MonitorConfig: Slack.WebhookURL / PagerDuty.ServiceKey set?, Services
    serviceStatus,  \* Monitor.serviceStatus: name -> ServiceStatus
    statusMutex,    \* Monitor.statusMutex: [writer, readers]
    g,              \* per service goroutine: position and locals of the loop
    ticker,         \* per service time.Ticker: [created, pending]
    now,            \* the clock
    crashed,        \* the process died of a panic
    reader,         \* the /health handler, per query: [pc, snapshot]
    obs             \* per service observations (history, not program state)

vars == <<config, serviceStatus, statusMutex, g, ticker, now, crashed, reader, obs>>

(* ------------------------------ helpers ------------------------------- *)
\* The configured services, by name (names are unique in a configuration).
Services == DOMAIN config.Services

Cfg(s) == config.Services[s]

\* sync.RWMutex: Lock() needs no writer and no reader.
CanLock == statusMutex.writer = NoOne /\ statusMutex.readers = 0

\* Variant: the reader does not wait for the writer.
CanRLockAlways == TRUE

\* sync.RWMutex: RLock() needs no writer.
CanRLock == statusMutex.writer = NoOne

\* fmt.Errorf("unexpected status code: %d", resp.StatusCode)
StatusError(code) == <<"unexpected status code", code>>
TransportError    == <<"transport error">>
RequestError      == <<"invalid request">>
NilError          == <<>>

\* What client.Do returns: a transport error, or a response with a status code.
Responses == {[err |-> TRUE, code |-> 0]} \cup {[err |-> FALSE, code |-> c] : c \in StatusCodes}

\* ServiceStatus as NewMonitor creates it.
InitialStatus ==
    [ Status       |-> TRUE,
      LastCheck    |-> 0,
      LastError    |-> <<>>,
      FailureCount |-> 0,
      ResponseTime |-> 0,
      AlertSent    |-> FALSE,
      RecoveryTime |-> Nil ]

NoOutcome == [set |-> FALSE, status |-> FALSE, errMsg |-> <<>>, responseTime |-> 0]

InitialG ==
    [ pc        |-> "spawn",
      attempt   |-> 0,
      lastErr   |-> NilError,
      startTime |-> 0,
      sent      |-> 0,          \* when the request in flight was sent
      wake      |-> 0,          \* when time.Sleep returns
      call      |-> NoOutcome,  \* arguments of the updateServiceStatus call
      prevStatus|-> TRUE ]      \* prevStatus of updateServiceStatus

NoApply == [active |-> FALSE, pre |-> InitialStatus, event |-> "none",
            calls |-> {}, ncalls |-> 0, failed |-> {}, reported |-> Nil,
            downFor |-> Nil, at |-> Nil]

InitialObs ==
    [ requests    |-> 0,        \* requests issued by the current probe
      resps       |-> <<>>,     \* what its attempts returned, in order
      applies     |-> 0,        \* updateServiceStatus calls of the current probe
      slept       |-> 0,        \* time the current probe spent in time.Sleep
      reqTime     |-> 0,        \* time its requests took, in all
      probeStart  |-> Nil,      \* when the last probe started
      probeEnd    |-> Nil,      \* when the last probe returned
      apply       |-> NoApply,  \* the apply in progress or just completed:
                                \*   pre: the record when it took the lock,
                                \*   at: the time when it took the lock,
                                \*   event: the dispatch it made,
                                \*   calls / failed: backend calls made / failed,
                                \*   ncalls: how many calls went out,
                                \*   reported: the downtime sendRecoveryAlert reports,
                                \*   downFor: the time since the outage began
      lastOutcome |-> "none",   \* the previous outcome applied: "none", "ok", "fail"
      runs        |-> 0,        \* maximal runs of failures begun
      outages     |-> 0,        \* OutageStarted dispatches (sendAlerts calls)
      recoveries  |-> 0,        \* Recovered dispatches (sendRecoveryAlert calls)
      downSince   |-> Nil,      \* when the current run of failures began
      failedAlerts |-> {} ]     \* the calls of the current outage's alert that
                                \* failed

\* The configurations with the services `names`.
MonitorConfigs(names) ==
    [ Slack : BOOLEAN, PagerDuty : BOOLEAN, Services : [names -> ServiceConfigs] ]

\* NewMonitor and startMonitoring, for a configuration.
InitWith(c) ==
    /\ config = c
    /\ serviceStatus = [s \in Services |-> InitialStatus]
    /\ statusMutex = [writer |-> NoOne, readers |-> 0]
    /\ g = [s \in Services |-> InitialG]
    /\ ticker = [s \in Services |-> [created |-> Nil, pending |-> FALSE]]
    /\ now = 0
    /\ crashed = FALSE
    /\ reader = [q \in Queries |-> [pc |-> "idle", snapshot |-> <<>>]]
    /\ obs = [s \in Services |-> InitialObs]

Init == \E c \in MonitorConfigs({"api"}) : InitWith(c)

(* --------------------------- startMonitoring -------------------------- *)
\* time.NewTicker panics on a non-positive interval.
StartLoop(s) ==
    /\ ~crashed
    /\ g[s].pc = "spawn"
    /\ IF Cfg(s).CheckInterval <= 0
       THEN /\ crashed' = TRUE
            /\ UNCHANGED <<g, ticker, obs>>
       ELSE /\ ticker' = [ticker EXCEPT ![s] = [created |-> now, pending |-> FALSE]]
            /\ g' = [g EXCEPT ![s].pc = "check"]
            /\ obs' = [obs EXCEPT ![s].probeStart = now]
            /\ UNCHANGED crashed
    /\ UNCHANGED <<config, serviceStatus, statusMutex, now, reader>>

\* <-ticker.C
AwaitTick(s) ==
    /\ ~crashed
    /\ g[s].pc = "wait"
    /\ ticker[s].pending
    /\ ticker' = [ticker EXCEPT ![s].pending = FALSE]
    /\ g' = [g EXCEPT ![s].pc = "check"]
    /\ obs' = [obs EXCEPT ![s].probeStart = now]
    /\ UNCHANGED <<config, serviceStatus, statusMutex, now, crashed, reader>>

(* ----------------------------- checkService --------------------------- *)
\* Lines 105-119: Lock, map read, Unlock; startTime; http.NewRequest.
CheckBegin(s) ==
    /\ ~crashed
    /\ g[s].pc = "check"
    /\ CanLock
    /\ IF Cfg(s).ValidRequest
       THEN g' = [g EXCEPT ![s] = [@ EXCEPT !.pc = "loop", !.attempt = 0,
                                            !.lastErr = NilError, !.startTime = now]]
       ELSE g' = [g EXCEPT ![s] = [@ EXCEPT !.pc = "update", !.startTime = now,
                      !.call = [set |-> TRUE, status |-> FALSE,
                                errMsg |-> RequestError, responseTime |-> 0]]]
    /\ UNCHANGED <<config, serviceStatus, statusMutex, ticker, now, crashed, reader, obs>>

\* for attempt := 0; attempt < service.RetryAttempts; attempt++ { client.Do(req) ...
\* and, after the loop, lastErr.Error(): a nil lastErr panics.
LoopTest(s) ==
    /\ ~crashed
    /\ g[s].pc = "loop"
    /\ IF g[s].attempt < Cfg(s).RetryAttempts
       THEN /\ g' = [g EXCEPT ![s] = [@ EXCEPT !.pc = "request", !.sent = now]]
            /\ obs' = [obs EXCEPT ![s].requests = @ + 1]
            /\ UNCHANGED crashed
       ELSE IF g[s].lastErr = NilError
            THEN /\ crashed' = TRUE
                 /\ UNCHANGED <<g, obs>>
            ELSE /\ g' = [g EXCEPT ![s] = [@ EXCEPT !.pc = "update",
                            !.call = [set |-> TRUE, status |-> FALSE,
                                      errMsg |-> g[s].lastErr,
                                      responseTime |-> now - g[s].startTime]]]
                 /\ UNCHANGED <<crashed, obs>>
    /\ UNCHANGED <<config, serviceStatus, statusMutex, ticker, now, reader>>

\* The error recorded for a failed attempt (lines 131 and 141).
AttemptError(resp) == IF resp.err THEN TransportError ELSE StatusError(resp.code)

\* Variant: only the first error of a probe is kept.
RecordFirstError(lastErr, resp) ==
    IF lastErr = NilError THEN AttemptError(resp) ELSE lastErr

\* Lines 131 and 141: lastErr = ..., whatever it held.
RecordError(lastErr, resp) == AttemptError(resp)

\* Variant: any response counts, whatever its status code.
MatchesAnyResponse(resp, expected) == ~resp.err

\* Lines 130 and 136: no transport error and
\* resp.StatusCode == service.ExpectedStatus
Matches(resp, expected) == ~resp.err /\ resp.code = expected

\* client.Do returns: success ends the probe, a failure is recorded and slept on.
RequestReturn(s, resp) ==
    /\ ~crashed
    /\ g[s].pc = "request"
    /\ IF Matches(resp, Cfg(s).ExpectedStatus)
       THEN /\ g' = [g EXCEPT ![s] = [@ EXCEPT !.pc = "update",
                       !.call = [set |-> TRUE, status |-> TRUE, errMsg |-> <<>>,
                                 responseTime |-> now - g[s].startTime]]]
            /\ obs' = [obs EXCEPT ![s].resps = Append(@, resp),
                                  ![s].reqTime = @ + (now - g[s].sent)]
       ELSE /\ g' = [g EXCEPT ![s] = [@ EXCEPT !.pc = "sleep",
                       !.lastErr = RecordError(g[s].lastErr, resp),
                       !.wake = now + Cfg(s).RetryDelay]]
            /\ obs' = [obs EXCEPT ![s].resps = Append(@, resp),
                                  ![s].reqTime = @ + (now - g[s].sent),
                                  ![s].slept = @ + Cfg(s).RetryDelay]
    /\ UNCHANGED <<config, serviceStatus, statusMutex, ticker, now, crashed, reader>>

\* time.Sleep(RetryDelay) returns; attempt++.
SleepReturn(s) ==
    /\ ~crashed
    /\ g[s].pc = "sleep"
    /\ now >= g[s].wake
    /\ g' = [g EXCEPT ![s] = [@ EXCEPT !.pc = "loop", !.attempt = @ + 1]]
    /\ UNCHANGED <<config, serviceStatus, statusMutex, ticker, now, crashed, reader, obs>>

(* -------------------------- updateServiceStatus ------------------------ *)
\* Variant: every failure alerts.
ShouldAlertEveryFailure(prevStatus, alertSent) == TRUE

\* Line 163: the first failure since the service was up alerts.
ShouldAlert(prevStatus, alertSent) == prevStatus /\ ~alertSent

\* Line 168: a success after a failure is a recovery.
IsRecovery(prevStatus, status) == ~prevStatus /\ status

\* Variant: the count is set, not incremented.
FailedStatusCountOne(st, errMsg) ==
    [st EXCEPT !.LastError = errMsg, !.FailureCount = 1]

\* Variant: a failure forgets the last recovery.
FailedStatusClearRecovery(st, errMsg) ==
    [st EXCEPT !.LastError = errMsg, !.FailureCount = @ + 1, !.RecoveryTime = Nil]

\* Lines 160-161: a failure is recorded.
FailedStatus(st, errMsg) ==
    [st EXCEPT !.LastError = errMsg, !.FailureCount = @ + 1]

\* Variant: the flag is not set.
AlertedStatusUnmarked(st) == st

\* Line 166: the alert went out.
AlertedStatus(st) == [st EXCEPT !.AlertSent = TRUE]

\* Variant: the count survives the recovery.
RecoveredStatusKeepCount(st, t) ==
    [st EXCEPT !.RecoveryTime = t, !.AlertSent = FALSE]

\* Lines 170-173: a recovery at time t is recorded.
RecoveredStatus(st, t) ==
    [st EXCEPT !.RecoveryTime = t, !.FailureCount = 0, !.AlertSent = FALSE]

\* Variant: every service's record is the one of "api".
StatusKeyShared(serviceName) == "api"

\* Line 153: the record is looked up by the service's name.
StatusKey(serviceName) == serviceName

\* Variant: the response time is kept for successful probes only.
CheckedStatusLatencyOfSuccess(st, status, t, responseTime) ==
    [st EXCEPT !.Status = status, !.LastCheck = t,
               !.ResponseTime = IF status THEN responseTime ELSE @]

\* Lines 155-157: the fields written on every outcome.
CheckedStatus(st, status, t, responseTime) ==
    [st EXCEPT !.Status = status, !.LastCheck = t, !.ResponseTime = responseTime]

\* Lines 150-157: Lock (held until the function returns), prevStatus, and the
\* fields written on every outcome.
UpdateBegin(s) ==
    /\ ~crashed
    /\ g[s].pc = "update"
    /\ CanLock
    /\ statusMutex' = [statusMutex EXCEPT !.writer = s]
    /\ g' = [g EXCEPT ![s] = [@ EXCEPT !.pc = "branch",
                                       !.prevStatus = serviceStatus[StatusKey(s)].Status]]
    /\ serviceStatus' = [serviceStatus EXCEPT ![StatusKey(s)] =
                            CheckedStatus(@, g[s].call.status, now,
                                          g[s].call.responseTime)]
    /\ obs' = [obs EXCEPT ![s] = [@ EXCEPT
                  !.applies = @ + 1,
                  !.apply = [NoApply EXCEPT !.active = TRUE, !.pre = serviceStatus[StatusKey(s)],
                                           !.at = now]]]
    /\ UNCHANGED <<config, ticker, now, crashed, reader>>

\* time.Since(*status.RecoveryTime), rounded to the second by duration.Round:
\* the clock counts whole seconds.
RecoveryDuration(recoveryTime, t) == t - recoveryTime

\* Lines 159-175, up to the call that dispatches.
UpdateBranch(s) ==
    LET st      == serviceStatus[StatusKey(s)]
        status  == g[s].call.status
        prev    == g[s].prevStatus
        newRun  == ~status /\ obs[s].lastOutcome # "fail"
        outcome == IF status THEN "ok" ELSE "fail"
    IN
    /\ ~crashed
    /\ g[s].pc = "branch"
    /\ IF ~status
       THEN /\ serviceStatus' = [serviceStatus EXCEPT ![StatusKey(s)] =
                                   FailedStatus(@, g[s].call.errMsg)]
            /\ IF ShouldAlert(prev, st.AlertSent)
               THEN /\ g' = [g EXCEPT ![s].pc = "alerts"]
                    /\ obs' = [obs EXCEPT ![s] = [@ EXCEPT
                                 !.lastOutcome = outcome,
                                 !.runs = IF newRun THEN @ + 1 ELSE @,
                                 !.downSince = IF newRun THEN now ELSE @,
                                 !.outages = @ + 1,
                                 !.failedAlerts = {},
                                 !.apply = [@ EXCEPT !.event = "OutageStarted"]]]
               ELSE /\ g' = [g EXCEPT ![s].pc = "unlock"]
                    /\ obs' = [obs EXCEPT ![s] = [@ EXCEPT
                                 !.lastOutcome = outcome,
                                 !.runs = IF newRun THEN @ + 1 ELSE @,
                                 !.downSince = IF newRun THEN now ELSE @]]
       ELSE IF IsRecovery(prev, status)
            THEN /\ serviceStatus' = [serviceStatus EXCEPT ![StatusKey(s)] =
                                        RecoveredStatus(@, now)]
                 /\ g' = [g EXCEPT ![s].pc = "recovery"]
                 /\ obs' = [obs EXCEPT ![s] = [@ EXCEPT
                              !.lastOutcome = outcome,
                              !.recoveries = @ + 1,
                              !.failedAlerts = {},
                              !.apply = [@ EXCEPT
                                  !.event = "Recovered",
                                  !.reported = RecoveryDuration(serviceStatus'[StatusKey(s)].RecoveryTime, now),
                                  !.downFor = IF obs[s].downSince = Nil THEN Nil
                                              ELSE now - obs[s].downSince]]]
            ELSE /\ g' = [g EXCEPT ![s].pc = "unlock"]
                 /\ obs' = [obs EXCEPT ![s].lastOutcome = outcome]
                 /\ UNCHANGED serviceStatus
    /\ UNCHANGED <<config, statusMutex, ticker, now, crashed, reader>>

(* ------------------------------ sendAlerts ---------------------------- *)
\* Lines 260-266: the first service of the configuration with that name (the
\* names are unique), or the zero ServiceConfig.
FindService(name) ==
    IF name \in DOMAIN config.Services
    THEN config.Services[name]
    ELSE [ExpectedStatus |-> 0, RetryAttempts |-> 0, RetryDelay |-> 0,
          CheckInterval |-> 0, CriticalService |-> FALSE, ValidRequest |-> FALSE]

\* Line 269: m.config.Alerts.Slack.WebhookURL != ""
SlackConfigured == config.Slack

\* Lines 247 and 276: m.config.Alerts.PagerDuty.ServiceKey != ""
PagerDutyConfigured == config.PagerDuty

\* Variant: every service pages.
ShouldPageAnyService(serviceConfig) == PagerDutyConfigured

\* Line 276: PagerDuty is triggered for critical services only.
ShouldPage(serviceConfig) == serviceConfig.CriticalService /\ PagerDutyConfigured

\* Variant: only critical services are resolved.
ShouldResolveCriticalOnly(name) ==
    FindService(name).CriticalService /\ PagerDutyConfigured

\* Line 247: the incident is resolved whenever PagerDuty is configured.
ShouldResolve(name) == PagerDutyConfigured

\* A call to a backend goes out: the goroutine waits for the answer at `pc`.
Call(s, name, pc) ==
    /\ g' = [g EXCEPT ![s].pc = pc]
    /\ obs' = [obs EXCEPT ![s].apply.calls = @ \cup {name},
                          ![s].apply.ncalls = @ + 1]

\* Lines 268-273: sendSlackAlert, if the webhook is configured.
AlertSlack(s) ==
    /\ ~crashed
    /\ g[s].pc = "alerts"
    /\ IF SlackConfigured
       THEN Call(s, "slack alert", "slack")
       ELSE g' = [g EXCEPT ![s].pc = "alerts2"] /\ UNCHANGED obs
    /\ UNCHANGED <<config, serviceStatus, statusMutex, ticker, now, crashed, reader>>

\* Lines 275-280: sendPagerDutyAlert, for a critical service.
AlertPagerDuty(s) ==
    /\ ~crashed
    /\ g[s].pc = "alerts2"
    /\ IF ShouldPage(FindService(s))
       THEN Call(s, "pagerduty trigger", "pagerduty")
       ELSE g' = [g EXCEPT ![s].pc = "alerted"] /\ UNCHANGED obs
    /\ UNCHANGED <<config, serviceStatus, statusMutex, ticker, now, crashed, reader>>

(* --------------------------- sendRecoveryAlert ------------------------ *)
\* Lines 240-244: the recovery message to Slack.
RecoverySlack(s) ==
    /\ ~crashed
    /\ g[s].pc = "recovery"
    /\ IF SlackConfigured
       THEN Call(s, "slack recovery", "rslack")
       ELSE g' = [g EXCEPT ![s].pc = "recovery2"] /\ UNCHANGED obs
    /\ UNCHANGED <<config, serviceStatus, statusMutex, ticker, now, crashed, reader>>

\* Lines 247-255: the PagerDuty incident is resolved.
RecoveryPagerDuty(s) ==
    /\ ~crashed
    /\ g[s].pc = "recovery2"
    /\ IF ShouldResolve(s)
       THEN Call(s, "pagerduty resolve", "rpagerduty")
       ELSE g' = [g EXCEPT ![s].pc = "unlock"] /\ UNCHANGED obs
    /\ UNCHANGED <<config, serviceStatus, statusMutex, ticker, now, crashed, reader>>

\* Variant: sendAlerts returns after the Slack call.
AfterCallSlackOnly(pc) ==
    CASE pc = "slack"      -> "alerted"
      [] pc = "pagerduty"  -> "alerted"
      [] pc = "rslack"     -> "recovery2"
      [] pc = "rpagerduty" -> "unlock"

\* Where the goroutine goes on when a backend call returns.
AfterCall(pc) ==
    CASE pc = "slack"      -> "alerts2"
      [] pc = "pagerduty"  -> "alerted"
      [] pc = "rslack"     -> "recovery2"
      [] pc = "rpagerduty" -> "unlock"

CallName(pc) ==
    CASE pc = "slack"      -> "slack alert"
      [] pc = "pagerduty"  -> "pagerduty trigger"
      [] pc = "rslack"     -> "slack recovery"
      [] pc = "rpagerduty" -> "pagerduty resolve"

\* The backend answers or the call fails: an error is logged at most.
BackendReturn(s, ok) ==
    /\ ~crashed
    /\ g[s].pc \in {"slack", "pagerduty", "rslack", "rpagerduty"}
    /\ g' = [g EXCEPT ![s].pc = AfterCall(g[s].pc)]
    /\ obs' = [obs EXCEPT
                  ![s].apply.failed = IF ok THEN @ ELSE @ \cup {CallName(g[s].pc)},
                  ![s].failedAlerts =
                      IF ~ok /\ g[s].pc \in {"slack", "pagerduty"}
                      THEN @ \cup {CallName(g[s].pc)} ELSE @]
    /\ UNCHANGED <<config, serviceStatus, statusMutex, ticker, now, crashed, reader>>

\* Line 166, then the deferred Unlock: sendAlerts has returned.
AlertDone(s) ==
    /\ ~crashed
    /\ g[s].pc = "alerted"
    /\ serviceStatus' = [serviceStatus EXCEPT ![StatusKey(s)] = AlertedStatus(@)]
    /\ statusMutex' = [statusMutex EXCEPT !.writer = NoOne]
    /\ g' = [g EXCEPT ![s].pc = "returned"]
    /\ obs' = [obs EXCEPT ![s].apply.active = FALSE]
    /\ UNCHANGED <<config, ticker, now, crashed, reader>>

\* The deferred Unlock on the other paths.
UpdateUnlock(s) ==
    /\ ~crashed
    /\ g[s].pc = "unlock"
    /\ statusMutex' = [statusMutex EXCEPT !.writer = NoOne]
    /\ g' = [g EXCEPT ![s].pc = "returned"]
    /\ obs' = [obs EXCEPT ![s].apply.active = FALSE]
    /\ UNCHANGED <<config, serviceStatus, ticker, now, crashed, reader>>

\* checkService returns to the loop, which waits on the ticker.
CheckReturn(s) ==
    /\ ~crashed
    /\ g[s].pc = "returned"
    /\ g' = [g EXCEPT ![s] = [InitialG EXCEPT !.pc = "wait"]]
    /\ obs' = [obs EXCEPT ![s] = [@ EXCEPT !.requests = 0, !.resps = <<>>,
                                           !.applies = 0, !.apply = NoApply,
                                           !.slept = 0, !.reqTime = 0,
                                           !.probeEnd = now]]
    /\ UNCHANGED <<config, serviceStatus, statusMutex, ticker, now, crashed, reader>>

(* ---------------------------- startAPIServer -------------------------- *)
\* What the /health handler reports of a record (lines 302-308).
View(st) ==
    [ status        |-> st.Status,
      last_check    |-> st.LastCheck,
      last_error    |-> st.LastError,
      failure_count |-> st.FailureCount,
      response_time |-> st.ResponseTime ]

\* A query arrives: RLock.
HealthBegin(q) ==
    /\ ~crashed
    /\ reader[q].pc = "idle"
    /\ CanRLock
    /\ statusMutex' = [statusMutex EXCEPT !.readers = @ + 1]
    /\ reader' = [reader EXCEPT ![q].pc = "reading"]
    /\ UNCHANGED <<config, serviceStatus, g, ticker, now, crashed, obs>>

\* Lines 300-311: the range over the map builds the reply, which is encoded.
HealthRead(q) ==
    /\ ~crashed
    /\ reader[q].pc = "reading"
    /\ reader' = [reader EXCEPT ![q] =
                     [pc |-> "encoded",
                      snapshot |-> [s \in Services |-> View(serviceStatus[s])]]]
    /\ UNCHANGED <<config, serviceStatus, statusMutex, g, ticker, now, crashed, obs>>

\* The deferred RUnlock; the handler is done with the query.
HealthEnd(q) ==
    /\ ~crashed
    /\ reader[q].pc = "encoded"
    /\ statusMutex' = [statusMutex EXCEPT !.readers = @ - 1]
    /\ reader' = [reader EXCEPT ![q] = [pc |-> "idle", snapshot |-> <<>>]]
    /\ UNCHANGED <<config, serviceStatus, g, ticker, now, crashed, obs>>

(* -------------------------------- time -------------------------------- *)
\* The goroutine can take a step that takes no time.
Runnable(s) ==
    \/ g[s].pc \in {"spawn", "loop", "branch", "alerts", "alerts2", "alerted",
                    "recovery", "recovery2", "unlock", "returned"}
    \/ g[s].pc \in {"check", "update"} /\ CanLock
    \/ g[s].pc = "sleep" /\ now >= g[s].wake
    \/ g[s].pc = "wait" /\ ticker[s].pending
    \/ g[s].pc = "request" /\ now - g[s].sent >= MaxReqTime

\* Variant: the ticker ticks every second, whatever the interval.
TickerAtEveryTick(s, t) ==
    IF ticker[s].created # Nil
    THEN [ticker[s] EXCEPT !.pending = TRUE]
    ELSE ticker[s]

\* The ticker sends on its channel every CheckInterval; the channel holds one
\* tick and a tick that finds it full is dropped.
TickerAt(s, t) ==
    IF ticker[s].created # Nil /\ (t - ticker[s].created) % Cfg(s).CheckInterval = 0
    THEN [ticker[s] EXCEPT !.pending = TRUE]
    ELSE ticker[s]

TickUntil(limit) ==
    /\ ~crashed
    /\ now < limit
    /\ \A s \in Services : ~Runnable(s)
    /\ \A q \in Queries : reader[q].pc = "idle"
    /\ now' = now + 1
    /\ ticker' = [s \in Services |-> TickerAt(s, now + 1)]
    /\ UNCHANGED <<config, serviceStatus, statusMutex, g, crashed, reader, obs>>

Tick == TickUntil(MaxTime)

(* ----------------------------- the system ----------------------------- *)
\* The scheduler goroutines.
Loops ==
    \/ \E s \in Services : StartLoop(s)
    \/ \E s \in Services : AwaitTick(s)
    \/ \E s \in Services : CheckBegin(s)
    \/ \E s \in Services : LoopTest(s)
    \/ \E s \in Services, resp \in Responses : RequestReturn(s, resp)
    \/ \E s \in Services : SleepReturn(s)
    \/ \E s \in Services : UpdateBegin(s)
    \/ \E s \in Services : UpdateBranch(s)
    \/ \E s \in Services : AlertSlack(s)
    \/ \E s \in Services : AlertPagerDuty(s)
    \/ \E s \in Services : RecoverySlack(s)
    \/ \E s \in Services : RecoveryPagerDuty(s)
    \/ \E s \in Services, ok \in BOOLEAN : BackendReturn(s, ok)
    \/ \E s \in Services : AlertDone(s)
    \/ \E s \in Services : UpdateUnlock(s)
    \/ \E s \in Services : CheckReturn(s)

\* The /health handler.
Health ==
    \/ \E q \in Queries : HealthBegin(q)
    \/ \E q \in Queries : HealthRead(q)
    \/ \E q \in Queries : HealthEnd(q)

\* One monitored service of any configuration, on its own.
Next == Loops \/ Tick

Spec == Init /\ [][Next]_vars

\* Two services and the /health handler, over a shorter time: "api" is probed
\* with one attempt, the request to "web" cannot be built.
PairMaxTime == 1

PairConfigs ==
    { c \in MonitorConfigs(Names) :
        \A s \in Names : /\ c.Services[s].RetryAttempts = 1
                         /\ c.Services[s].RetryDelay = 0
                         /\ c.Services[s].CheckInterval = 1
                         /\ c.Services[s].ValidRequest = (s = "api")
                         /\ c.Services[s].CriticalService = (s = "api") }

InitPair == \E c \in PairConfigs : InitWith(c)

TickPair == TickUntil(PairMaxTime)

NextPair == Loops \/ Health \/ TickPair

SpecPair == InitPair /\ [][NextPair]_vars

(* ------------------------------ properties ---------------------------- *)
\* What an attempt's response is, in the terms of the configuration.
Expected(s, resp) == ~resp.err /\ resp.code = Cfg(s).ExpectedStatus

\* The error text of a failed attempt.
ErrorOf(resp) == IF resp.err THEN TransportError ELSE StatusError(resp.code)

\* The apply of s has completed and checkService is returning.
Completed(s) == g[s].pc = "returned"

\* C1: each maximal run of failed outcomes gets exactly one OutageStarted
\* dispatch, and exactly one Recovered dispatch at the first success after it:
\* the dispatches alternate, starting with OutageStarted.
C1_OneAlertPerOutage ==
    \A s \in Services :
        /\ obs[s].outages = obs[s].runs
        /\ obs[s].recoveries =
              obs[s].runs - (IF obs[s].lastOutcome = "fail" THEN 1 ELSE 0)
        /\ obs[s].outages - obs[s].recoveries \in {0, 1}

\* Two outages of one service, with the recovery between them.
C1_Witness == \E s \in Services : obs[s].outages = 2 /\ obs[s].recoveries = 1

\* C2: a failure applied to a record that is Down keeps it Down, adds one to
\* the failure count, replaces the last error, and calls no backend.
C2_DownToDownSilent ==
    \A s \in Services :
        LET a  == obs[s].apply
            st == serviceStatus[s]
        IN  ((a.active \/ Completed(s)) /\ ~a.pre.Status /\ ~g[s].call.status) =>
               /\ a.calls = {}
               /\ a.event = "none"
               /\ ~st.Status
               /\ Completed(s) =>
                     /\ st.FailureCount = a.pre.FailureCount + 1
                     /\ st.LastError = g[s].call.errMsg

\* A second failure in a row has been applied.
C2_Witness ==
    \E s \in Services :
        /\ Completed(s) /\ ~obs[s].apply.pre.Status /\ ~g[s].call.status
        /\ serviceStatus[s].FailureCount = 2
        /\ serviceStatus[s].LastError # obs[s].apply.pre.LastError

\* C3: in a record as a completed apply leaves it, the failure count is 0 when
\* Up and at least 1 when Down; it is 1 right after Up->Down, and an apply that
\* leaves a Down record Down does not decrease it.
C3_FailureCount ==
    \A s \in Services :
        LET a  == obs[s].apply
            st == serviceStatus[s]
        IN  /\ ~a.active =>
                 /\ st.Status  => st.FailureCount = 0
                 /\ ~st.Status => st.FailureCount >= 1
            /\ (Completed(s) /\ a.pre.Status /\ ~st.Status) => st.FailureCount = 1
            /\ (Completed(s) /\ ~a.pre.Status /\ ~st.Status) =>
                 st.FailureCount >= a.pre.FailureCount

\* A second outage begins, after a recovery, with count 1.
C3_Witness ==
    \E s \in Services :
        /\ Completed(s) /\ obs[s].apply.pre.Status /\ ~serviceStatus[s].Status
        /\ serviceStatus[s].RecoveryTime # Nil
        /\ serviceStatus[s].FailureCount = 1

\* C4: when an outage is dispatched, Slack is alerted iff the webhook is
\* configured and PagerDuty is triggered iff the service is critical and
\* PagerDuty is configured; a non-critical service never triggers PagerDuty,
\* and a backend that is not configured is neither called nor fails.
C4_AlertPolicy ==
    \A s \in Services :
        LET a == obs[s].apply
        IN  /\ ~Cfg(s).CriticalService => "pagerduty trigger" \notin a.calls
            /\ a.failed \subseteq a.calls
            /\ (~config.Slack /\ ~config.PagerDuty) => a.calls = {}
            /\ (a.event = "OutageStarted" /\ g[s].pc \in {"alerted", "returned"}) =>
                 /\ "slack alert" \in a.calls <=> config.Slack
                 /\ "pagerduty trigger" \in a.calls <=>
                        (Cfg(s).CriticalService /\ config.PagerDuty)
                 /\ a.calls \subseteq {"slack alert", "pagerduty trigger"}

\* A non-critical service went down with both backends configured: Slack only.
C4_Witness ==
    \E s \in Services :
        /\ g[s].pc = "alerted" /\ obs[s].apply.event = "OutageStarted"
        /\ ~Cfg(s).CriticalService /\ config.PagerDuty /\ config.Slack
        /\ obs[s].apply.calls = {"slack alert"}

\* C5: a probe with N >= 1 attempts that all fail issues exactly N requests,
\* one after the other, and applies one failure that carries the error of the
\* N-th attempt.
C5_AllAttemptsFail ==
    \A s \in Services :
        LET N == Cfg(s).RetryAttempts
            r == obs[s].resps
        IN  /\ obs[s].requests <= N
            /\ obs[s].requests - Len(r) \in {0, 1}
            /\ (g[s].call.set /\ ~g[s].call.status /\ Cfg(s).ValidRequest /\ N >= 1) =>
                 /\ obs[s].requests = N
                 /\ Len(r) = N
                 /\ \A i \in 1..N : ~Expected(s, r[i])
                 /\ g[s].call.errMsg = ErrorOf(r[N])
                 /\ obs[s].applies <= 1
                 /\ Completed(s) =>
                       /\ obs[s].applies = 1
                       /\ ~serviceStatus[s].Status
                       /\ serviceStatus[s].LastError = ErrorOf(r[N])

\* Two attempts failed with different errors and the failure was applied.
C5_Witness ==
    \E s \in Services :
        /\ Completed(s) /\ ~g[s].call.status
        /\ Cfg(s).RetryAttempts = 2 /\ Len(obs[s].resps) = 2
        /\ ErrorOf(obs[s].resps[1]) # ErrorOf(obs[s].resps[2])

\* C6: a probe whose attempt k is the first to return the expected status
\* issues exactly k requests and none after it, and applies exactly one
\* outcome, a success, which leaves the record Up with failure count 0.
C6_SuccessStopsRetries ==
    \A s \in Services :
        LET N == Cfg(s).RetryAttempts
            r == obs[s].resps
            k == Len(r)
        IN  /\ \A i \in 1..k : Expected(s, r[i]) =>
                 /\ i = k
                 /\ obs[s].requests = k
                 /\ g[s].call.set /\ g[s].call.status
            /\ (g[s].call.set /\ g[s].call.status) =>
                 /\ k >= 1 /\ k <= N
                 /\ obs[s].requests = k
                 /\ Expected(s, r[k])
                 /\ \A i \in 1..(k - 1) : ~Expected(s, r[i])
                 /\ obs[s].applies <= 1
                 /\ Completed(s) =>
                       /\ obs[s].applies = 1
                       /\ serviceStatus[s].Status
                       /\ serviceStatus[s].FailureCount = 0

\* The second of two attempts succeeded and the success was applied.
C6_Witness ==
    \E s \in Services :
        /\ Completed(s) /\ g[s].call.status
        /\ obs[s].requests = 2 /\ Len(obs[s].resps) = 2

\* C7: the downtime a recovery reports is the time since the record went
\* Down (the first failure of the run).
C7_ReportedDowntime ==
    \A s \in Services :
        obs[s].apply.reported # Nil => obs[s].apply.reported = obs[s].apply.downFor

\* C8 (as claimed): alertActive only if Down in every state, and Down only if
\* alertActive whenever the write lock is free.
C8_Original ==
    \A s \in Services :
        /\ serviceStatus[s].AlertSent => ~serviceStatus[s].Status
        /\ statusMutex.writer = NoOne =>
              (~serviceStatus[s].Status => serviceStatus[s].AlertSent)

\* C8 (amended): while no apply of the record holds the write lock, alertActive
\* is true exactly when health is Down. Under the lock two transient states
\* exist: Up with alertActive still set, between the write of health and the
\* reset of the flag by a recovering apply, and Down without alertActive, from
\* the first failure until its dispatch has returned.
C8_AlertActiveIffDown ==
    \A s \in Services :
        LET st == serviceStatus[s]
        IN  /\ statusMutex.writer # s => (st.AlertSent <=> ~st.Status)
            /\ (st.AlertSent /\ st.Status) =>
                 /\ statusMutex.writer = s
                 /\ g[s].pc = "branch" /\ g[s].call.status /\ ~g[s].prevStatus
            /\ (~st.AlertSent /\ ~st.Status) =>
                 /\ statusMutex.writer = s
                 /\ g[s].prevStatus /\ ~g[s].call.status

\* The outage has been dispatched and the lock released: Down and alerted.
C8_Witness ==
    \E s \in Services :
        /\ Completed(s) /\ obs[s].apply.event = "OutageStarted"
        /\ statusMutex.writer = NoOne
        /\ ~serviceStatus[s].Status /\ serviceStatus[s].AlertSent

\* The loop of s starts its next probe.
NextProbe(s) == g[s].pc = "wait" /\ g'[s].pc = "check"

\* The ticker of s ticks at time t.
TickTime(s, t) == (t - ticker[s].created) % Cfg(s).CheckInterval = 0

\* C9 (as claimed): every later probe starts exactly one check_interval after
\* the previous probe completed.
C9_Original ==
    [][\A s \in Services :
          NextProbe(s) => now - obs[s].probeEnd = Cfg(s).CheckInterval]_vars

\* C9 (amended): the first probe starts as the loop starts, when the ticker is
\* created (with check_interval = 0 NewTicker panics and no probe starts).
\* Every later probe starts on a tick of that ticker, whose period is
\* check_interval: at once when a tick fired while the previous probe ran
\* (one tick is kept, the others are dropped), and otherwise at the first tick
\* after the previous probe completed, at most one check_interval later.
C9_TickerAligned ==
    [][\A s \in Services :
          /\ (g[s].pc = "spawn" /\ Cfg(s).CheckInterval <= 0) => g'[s].pc = "spawn"
          /\ (g[s].pc = "spawn" /\ g'[s].pc = "check") =>
                /\ obs'[s].probeStart = now
                /\ ticker'[s].created = now
          /\ NextProbe(s) =>
                LET b == obs[s].probeStart
                    e == obs[s].probeEnd
                IN  IF \E t \in (b + 1)..e : TickTime(s, t)
                    THEN now = e
                    ELSE /\ now > e
                         /\ now - e <= Cfg(s).CheckInterval
                         /\ TickTime(s, now)
                         /\ \A t \in (e + 1)..(now - 1) : ~TickTime(s, t)]_vars

\* A probe outlasted a tick and the next one has started at once.
C9_Witness ==
    \E s \in Services :
        /\ g[s].pc = "check"
        /\ obs[s].probeEnd = now
        /\ obs[s].probeStart = now
        /\ now > 0

\* C10: while a query holds the read lock no apply is in progress, so each
\* record it reports is the record as the last completed apply left it (or
\* the initial one): never Down with count 0, never Up with a count above 0.
\* Queries may hold the read lock together.
C10_ConsistentSnapshot ==
    /\ statusMutex.readers = Cardinality({q \in Queries : reader[q].pc # "idle"})
    /\ \A q \in Queries :
          /\ reader[q].pc \in {"reading", "encoded"} =>
                /\ statusMutex.writer = NoOne
                /\ \A s \in Services : ~obs[s].apply.active
          /\ reader[q].pc = "encoded" =>
                \A s \in Services :
                    LET snap == reader[q].snapshot[s]
                    IN  /\ snap = View(serviceStatus[s])
                        /\ snap.status => snap.failure_count = 0
                        /\ ~snap.status => snap.failure_count >= 1

\* Two queries report a service Down at once while an apply waits for the lock.
C10_Witness ==
    /\ \A q \in Queries : reader[q].pc = "encoded"
    /\ \E s \in Services : ~reader["q1"].snapshot[s].status
    /\ \E s \in Services : g[s].pc = "update"

\* C11: when a recovery is dispatched, the recovery message goes to Slack iff
\* the webhook is configured and PagerDuty gets a resolve iff it is configured,
\* critical service or not; a recovering apply never triggers PagerDuty.
C11_RecoveryPolicy ==
    \A s \in Services :
        LET a == obs[s].apply
        IN  /\ a.event = "Recovered" =>
                 a.calls \subseteq {"slack recovery", "pagerduty resolve"}
            /\ (~a.pre.Status /\ g[s].call.status) =>
                 "pagerduty trigger" \notin a.calls
            /\ (a.event = "Recovered" /\ g[s].pc \in {"unlock", "returned"}) =>
                 /\ "slack recovery" \in a.calls <=> config.Slack
                 /\ "pagerduty resolve" \in a.calls <=> config.PagerDuty

\* A non-critical service recovered: its incident is resolved all the same.
C11_Witness ==
    \E s \in Services :
        /\ Completed(s) /\ obs[s].apply.event = "Recovered"
        /\ ~Cfg(s).CriticalService /\ ~config.Slack
        /\ obs[s].apply.calls = {"pagerduty resolve"}

\* C12: a backend call that fails changes nothing else. Whatever calls fail:
\* (1) after a Slack call, failed or not, PagerDuty is still called when the
\* policy asks for it; (2) the record ends as the outcome alone determines
\* (Down, count + 1, the error, AlertSent after an OutageStarted dispatch; Up,
\* count 0, AlertSent reset after a Recovered one); (3) each call goes out
\* once, and a failure applied to a Down record calls no backend, even when
\* the calls of the outage's alert all failed.
C12_FailuresAbsorbed ==
    \A s \in Services :
        LET a  == obs[s].apply
            st == serviceStatus[s]
        IN  /\ (a.event = "OutageStarted" /\ g[s].pc \in {"alerted", "returned"}
                  /\ Cfg(s).CriticalService /\ config.PagerDuty) =>
                   "pagerduty trigger" \in a.calls
            /\ (a.event = "Recovered" /\ g[s].pc \in {"unlock", "returned"}
                  /\ config.PagerDuty) =>
                   "pagerduty resolve" \in a.calls
            /\ (Completed(s) /\ a.event = "OutageStarted") =>
                   /\ ~st.Status /\ st.AlertSent
                   /\ st.FailureCount = a.pre.FailureCount + 1
                   /\ st.LastError = g[s].call.errMsg
            /\ (Completed(s) /\ a.event = "Recovered") =>
                   st.Status /\ st.FailureCount = 0 /\ ~st.AlertSent
            /\ a.failed \subseteq a.calls
            /\ a.ncalls = Cardinality(a.calls)
            /\ ((a.active \/ Completed(s)) /\ ~a.pre.Status /\ ~g[s].call.status) =>
                   a.ncalls = 0

\* Both calls of an outage's alert failed; the record is Down with AlertSent
\* and the next failure has been applied without a call.
C12_Witness ==
    \E s \in Services :
        /\ obs[s].failedAlerts = {"slack alert", "pagerduty trigger"}
        /\ Completed(s) /\ ~obs[s].apply.pre.Status /\ ~g[s].call.status
        /\ obs[s].apply.pre.AlertSent /\ serviceStatus[s].AlertSent
        /\ obs[s].apply.ncalls = 0

\* C13: in a record as a completed apply leaves it, the last error is empty
\* whenever the service is up; a recovery leaves nothing of the outage's error.
C13_NoErrorWhenUp ==
    \A s \in Services :
        (~obs[s].apply.active /\ serviceStatus[s].Status) =>
            serviceStatus[s].LastError = <<>>

\* The configuration keeps the data model's invariant: interval, retry count
\* and retry delay are not negative.
NonNegative(serviceConfig) ==
    /\ serviceConfig.CheckInterval >= 0
    /\ serviceConfig.RetryAttempts >= 0
    /\ serviceConfig.RetryDelay >= 0

\* C14: when the configuration of every service is non-negative, no scheduler
\* loop ever ends, whatever the probes and the backends answer: the process
\* never stops.
C14_LoopsNeverEnd ==
    (\A s \in Services : NonNegative(Cfg(s))) => ~crashed

\* C15: within a probe the retry delay is waited between attempts only. A probe
\* whose N attempts all fail has slept N-1 delays and reports the time of its N
\* requests plus N-1 delays; a probe that succeeds at attempt k has slept k-1
\* delays.
C15_DelaysBetweenAttempts ==
    \A s \in Services :
        LET n == Cfg(s).RetryAttempts
            c == g[s].call
        IN  (c.set /\ Cfg(s).ValidRequest) =>
               /\ c.status =>
                    obs[s].slept = (Len(obs[s].resps) - 1) * Cfg(s).RetryDelay
               /\ ~c.status =>
                    /\ obs[s].slept = (n - 1) * Cfg(s).RetryDelay
                    /\ c.responseTime =
                          obs[s].reqTime + (n - 1) * Cfg(s).RetryDelay

\* C16: the write lock is held only while a record's fields are written: no
\* goroutine holds it while its probe request, its retry delay, its wait for
\* the ticker or a call to a notification backend is in progress, so that
\* none of these keeps a /health query or another service's apply waiting.
C16_LockOnlyForUpdate ==
    \A s \in Services :
        g[s].pc \in {"request", "sleep", "wait",
                     "slack", "pagerduty", "rslack", "rpagerduty"} =>
            statusMutex.writer # s

\* C17: a configuration with a service of retry_attempts 0 is rejected when it
\* is loaded: no scheduler loop starts, and no probe leaves its retry loop
\* having made no attempt and recorded no error.
C17_ZeroAttemptsRejected ==
    /\ (\E s \in Services : Cfg(s).RetryAttempts = 0) =>
           \A o \in Services : g[o].pc = "spawn"
    /\ \A s \in Services :
           ~(g[s].pc = "loop" /\ g[s].attempt >= Cfg(s).RetryAttempts
                              /\ g[s].lastErr = NilError)

\* C18: every apply writes the time at which it runs into LastCheck and the
\* outcome's latency into ResponseTime, whatever the record held and whatever
\* the outcome; a success applied to a record that is Up changes nothing else
\* and calls no backend.
C18_CheckedFields ==
    \A s \in Services :
        LET a  == obs[s].apply
            st == serviceStatus[s]
            c  == g[s].call
        IN  (a.active \/ Completed(s)) =>
               /\ st.LastCheck = a.at
               /\ obs[s].probeStart <= a.at /\ a.at <= now
               /\ st.ResponseTime = c.responseTime
               /\ (a.pre.Status /\ c.status) =>
                     /\ st = [a.pre EXCEPT !.LastCheck = a.at,
                                           !.ResponseTime = c.responseTime]
                     /\ a.ncalls = 0 /\ a.event = "none"

\* A success was applied to an Up record that held another time and another
\* latency.
C18_Witness ==
    \E s \in Services :
        LET a == obs[s].apply
        IN  /\ Completed(s) /\ a.pre.Status /\ g[s].call.status
            /\ serviceStatus[s].LastCheck # a.pre.LastCheck
            /\ serviceStatus[s].ResponseTime # a.pre.ResponseTime

\* C19 as stated: the recovery time is absent whenever the record is Down (the
\* next outage clears it).
C19_Original ==
    \A s \in Services :
        ~serviceStatus[s].Status => serviceStatus[s].RecoveryTime = Nil

\* C19: the recovery time is absent at startup and as long as the service has
\* not recovered; only the recovering step of an apply that found the record
\* Down writes it, with the time of that step; nothing clears it, the next
\* outage keeps the time of the last recovery.
C19_RecoveryTimeKept ==
    /\ \A s \in Services : serviceStatus[s].RecoveryTime = Nil
    /\ [][\A s \in Services :
            /\ serviceStatus'[s].RecoveryTime = Nil <=> obs'[s].recoveries = 0
            /\ serviceStatus'[s].RecoveryTime # serviceStatus[s].RecoveryTime =>
                  /\ g[s].pc = "branch" /\ g[s].call.status
                  /\ ~obs[s].apply.pre.Status
                  /\ obs'[s].apply.event = "Recovered"
                  /\ serviceStatus'[s].RecoveryTime = now
            /\ serviceStatus[s].RecoveryTime # Nil =>
                  serviceStatus'[s].RecoveryTime >= serviceStatus[s].RecoveryTime
       ]_vars

\* The outage after a recovery: the record is Down and holds the time of that
\* recovery, which is past.
C19_Witness ==
    \E s \in Services :
        /\ Completed(s) /\ ~serviceStatus[s].Status
        /\ obs[s].apply.event = "OutageStarted"
        /\ serviceStatus[s].RecoveryTime # Nil
        /\ serviceStatus[s].RecoveryTime < now

\* C20: the records are those of the configured services, one each, created
\* Up with count 0, no alert sent and no recovery time; no step adds or removes
\* a record; a step that changes the record of a service is a step of that
\* service's own apply and changes no other record; and the dispatches of each
\* service follow its own outcomes alone, whatever the others do.
C20_RecordsIndependent ==
    /\ DOMAIN serviceStatus = DOMAIN config.Services
    /\ \A s \in Services :
          /\ serviceStatus[s].Status /\ serviceStatus[s].FailureCount = 0
          /\ ~serviceStatus[s].AlertSent /\ serviceStatus[s].RecoveryTime = Nil
    /\ [][/\ DOMAIN serviceStatus' = DOMAIN serviceStatus
          /\ \A s \in Services :
                serviceStatus'[s] # serviceStatus[s] =>
                   /\ g[s].pc \in {"update", "branch", "alerted"}
                   /\ g'[s].pc # g[s].pc
                   /\ \A o \in Services \ {s} : serviceStatus'[o] = serviceStatus[o]
          /\ \A s \in Services :
                /\ obs'[s].outages = obs'[s].runs
                /\ obs'[s].recoveries =
                      obs'[s].runs - (IF obs'[s].lastOutcome = "fail" THEN 1 ELSE 0)
       ]_vars

\* Both services have been probed: "web" is Down with its alert sent while
\* "api" is Up and untouched by it.
C20_Witness ==
    /\ Services = {"api", "web"}
    /\ Completed("api") /\ g["api"].call.status /\ serviceStatus["api"].Status
    /\ serviceStatus["api"].FailureCount = 0 /\ ~serviceStatus["api"].AlertSent
    /\ ~serviceStatus["web"].Status /\ serviceStatus["web"].AlertSent
    /\ serviceStatus["web"].FailureCount = 1
    /\ obs["web"].outages = 1 /\ obs["api"].outages = 0

====
